---- MODULE Spec2Model ----
(***************************************************************************)
(* get_next_line (estebanarriaga/get_next_line): the compacting reader of  *)
(* src/get_next_line.c.  The state is the static array g_buffers, the      *)
(* streams behind the file descriptors, and the activation of              *)
(* get_next_line_delim that is in progress (its while(1) loop blocks in    *)
(* read(2), so one loop iteration is one step).  The program is            *)
(* single-threaded: at most one call is in progress.                       *)
(***************************************************************************)
EXTENDS Integers, Sequences, FiniteSets, TLC

\* ------------------------------------------------------------------ bounds
MaxLen == 3      \* bytes in the streams drawn by Init, all streams together
MaxChunk == 2    \* largest GNL_BUFFER_SIZE drawn by Init
MaxEofs == 2     \* GNL_EOF results the callers take per run
MaxEvents == 1   \* injected read/allocation failures plus releases that free
                 \* a buffer, per run

\* --------------------------------------------------------- program constants
GNL_LINE_READ == 1
GNL_EOF == 0
GNL_ERROR == -1
\* GNL_MAX_FD is a build parameter (#ifndef ... -D GNL_MAX_FD=n); the model is
\* the build with two descriptors, 0 and 1.
GNL_MAX_FD == 2
GNL_DEFAULT_DELIM == 10

\* A pointer is a sequence of length 0 (NULL) or 1 (the object pointed to).
NULL == <<>>
Ptr(obj) == <<obj>>
Deref(p) == p[1]

\* The bytes streams are made of: '\n', ',' and 'a'.
Bytes == {10, 44, 97}
\* The delimiters callers pass: '\n', which is also what get_next_line passes
\* (a call of get_next_line is the call of get_next_line_delim with it), and ','.
Delims == {GNL_DEFAULT_DELIM, 44}
\* The content of a byte that was allocated and never written (outside the
\* range of char, so that it equals no delimiter and no stream byte).
Undef == 255 + 1

\* The streams of the spec's two concrete scenarios: "ab\ncd\nef" and "a,b,,c".
Scenario1 == <<97, 98, 10, 99, 100, 10, 101, 102>>
Scenario2 == <<97, 44, 98, 44, 44, 99>>

Fds == 0 .. (GNL_MAX_FD - 1)
\* Descriptors a caller may pass: the valid ones, -1 and GNL_MAX_FD.
FdArgs == (0 - 1) .. GNL_MAX_FD

SeqsUpTo(S, n) == UNION {[1 .. k -> S] : k \in 0 .. n}
Min(a, b) == IF a < b THEN a ELSE b

VARIABLES
    g_buffers,        \* [Fds -> NULL or Ptr(t_gnl_buffer)]
    GNL_BUFFER_SIZE,  \* the build's refill chunk size (fixed after Init)
    opened,           \* the descriptors that are open for reading (fixed)
    file,             \* [Fds -> the bytes of the stream behind the descriptor]
    pos,              \* [Fds -> bytes of file[fd] that read(2) has delivered]
    frame,            \* NULL, or Ptr([fd, delim]): get_next_line_delim in its loop
    line,             \* the caller's char *line: NULL or Ptr(block)
    res,              \* the last return of get_next_line_delim: [ret, why]
    out,              \* [Fds -> non-error results so far: [ret, seg, delim]]
    released,         \* [Fds -> gnl_close has freed a buffer of this descriptor]
    nfail,            \* [Fds -> read failures injected into calls on it]
    nnomem,           \* [Fds -> allocation failures injected into calls on it]
    nclose,           \* buffers freed so far
    BONUS_BUFFER_SIZE, \* get_next_line_bonus.c: its BUFFER_SIZE (fixed after Init)
    container,        \* get_next_line_bonus.c: [Fds -> NULL or Ptr(string)]
    bpos,             \* [Fds -> bytes of file[fd] its read(2) has delivered]
    bout              \* [Fds -> what its get_next_line has returned so far]

\* The state of the program built from get_next_line_bonus.c, which reads
\* the same streams with file offsets of its own.
bonus_vars == <<BONUS_BUFFER_SIZE, container, bpos, bout>>

vars == <<g_buffers, GNL_BUFFER_SIZE, opened, file, pos, frame, line, res, out,
          released, nfail, nnomem, nclose, BONUS_BUFFER_SIZE, container, bpos,
          bout>>

\* ------------------------------------------------------------ libc helpers
\* malloc(n): a block of n bytes, none written yet.
malloc(n) == [i \in 1 .. n |-> Undef]

\* realloc(data, n): the first min(old, n) bytes kept, the rest unwritten.
realloc(data, n) == [i \in 1 .. n |-> IF i <= Len(data) THEN data[i] ELSE Undef]

\* memchr(s, c, n): the 0-based offset of the first c in s[0, n), or -1.
memchr(s, c, n) ==
    IF \E i \in 1 .. n : s[i] = c
    THEN (CHOOSE i \in 1 .. n : s[i] = c /\ \A j \in 1 .. (i - 1) : s[j] # c) - 1
    ELSE 0 - 1

\* memcpy(dst, src, n): dst with its first n bytes those of src.
memcpy(dst, src, n) == [i \in 1 .. Len(dst) |-> IF i <= n THEN src[i] ELSE dst[i]]

\* memmove(data, from, n): data with data[from, from + n) copied to its front.
memmove(data, from, n) ==
    [i \in 1 .. Len(data) |-> IF i <= n THEN data[from + i] ELSE data[i]]

\* Failures injected and buffers freed so far.
NEvents == nfail[0] + nfail[1] + nnomem[0] + nnomem[1] + nclose

\* What read(fd, ., count) may return: -1 (EBADF) on a descriptor that is not
\* open; on an open one any short read of 1..count bytes while bytes are
\* left, 0 exactly at the end of the data, or -1 (EIO, EINTR) while failures
\* may still be injected.
ReadResults(fd, count) ==
    IF fd \notin opened THEN {0 - 1}
    ELSE (IF pos[fd] = Len(file[fd]) THEN {0}
          ELSE 1 .. Min(count, Len(file[fd]) - pos[fd]))
         \cup (IF NEvents < MaxEvents THEN {0 - 1} ELSE {})

\* The bytes a read that returns rd stores at its buffer argument.
Delivered(fd, rd) == SubSeq(file[fd], pos[fd] + 1, pos[fd] + rd)

\* Allocation outcomes: 0 = every allocation succeeds, k = the k-th fails.
NoMem(k) == IF NEvents < MaxEvents THEN 0 .. k ELSE {0}

\* gnl_get_buffer without the assignment of line 47: the new buffer starts
\* with eof_reached set.
gnl_get_buffer_eof_set(g, BUFFER_SIZE, fd, nomem) ==
    IF g[fd] # NULL THEN [buf |-> g[fd], g |-> g]
    ELSE IF nomem = 1 THEN [buf |-> NULL, g |-> g]
    ELSE IF nomem = 2 THEN [buf |-> NULL, g |-> g]
    ELSE LET buf == [data |-> malloc(BUFFER_SIZE),
                     size |-> BUFFER_SIZE,
                     len |-> 0,
                     eof_reached |-> 1]
         IN [buf |-> Ptr(buf), g |-> [g EXCEPT ![fd] = Ptr(buf)]]

\* ---------------------------------------------------------- gnl_get_buffer
\* On the registry g of a build with chunk size BUFFER_SIZE.
\* [buf, g]: the pointer returned and the registry afterwards.
gnl_get_buffer(g, BUFFER_SIZE, fd, nomem) ==
    IF g[fd] # NULL THEN [buf |-> g[fd], g |-> g]
    ELSE IF nomem = 1 THEN [buf |-> NULL, g |-> g]
    ELSE IF nomem = 2 THEN [buf |-> NULL, g |-> g]
    ELSE LET buf == [data |-> malloc(BUFFER_SIZE),
                     size |-> BUFFER_SIZE,
                     len |-> 0,
                     eof_reached |-> 0]
         IN [buf |-> Ptr(buf), g |-> [g EXCEPT ![fd] = Ptr(buf)]]

\* ------------------------------------------------------ gnl_ensure_capacity
RECURSIVE Doubled(_, _, _)
Doubled(new_size, len, needed) ==
    IF new_size - len < needed THEN Doubled(new_size * 2, len, needed)
    ELSE new_size

\* gnl_ensure_capacity with the capacity test of line 67 always taken for
\* true: the buffer never grows.
gnl_ensure_capacity_no_growth(buf, needed, nomem) == [rc |-> 0, buf |-> buf]

\* gnl_ensure_capacity storing the new size before realloc is tested: a
\* failed growth leaves size doubled over the old block.
gnl_ensure_capacity_size_first(buf, needed, nomem) ==
    IF buf.size - buf.len >= needed THEN [rc |-> 0, buf |-> buf]
    ELSE LET new_size == Doubled(buf.size, buf.len, needed)
         IN IF nomem = 1
            THEN [rc |-> 0 - 1, buf |-> [buf EXCEPT !.size = new_size]]
            ELSE [rc |-> 0,
                  buf |-> [buf EXCEPT !.data = realloc(buf.data, new_size),
                                      !.size = new_size]]

\* [rc, buf]
gnl_ensure_capacity(buf, needed, nomem) ==
    IF buf.size - buf.len >= needed THEN [rc |-> 0, buf |-> buf]
    ELSE LET new_size == Doubled(buf.size, buf.len, needed)
         IN IF nomem = 1 THEN [rc |-> 0 - 1, buf |-> buf]
            ELSE [rc |-> 0,
                  buf |-> [buf EXCEPT !.data = realloc(buf.data, new_size),
                                      !.size = new_size]]

\* gnl_extract_line with the remainder moved from the delimiter's offset
\* instead of the offset after it.
gnl_extract_line_from_delim(buf, delim_pos, nomem) ==
    LET line_len == delim_pos + 1
        remaining == buf.len - line_len
        copied == memcpy(malloc(line_len + 1), buf.data, line_len)
    IN IF nomem = 1 THEN [line |-> NULL, buf |-> buf]
       ELSE [line |-> Ptr([copied EXCEPT ![line_len + 1] = 0]),
             buf |-> [buf EXCEPT
                        !.data = IF remaining > 0
                                 THEN memmove(buf.data, delim_pos, remaining)
                                 ELSE buf.data,
                        !.len = remaining]]

\* gnl_extract_line without the update of len.
gnl_extract_line_keeps_len(buf, delim_pos, nomem) ==
    LET line_len == delim_pos + 1
        remaining == buf.len - line_len
        copied == memcpy(malloc(line_len + 1), buf.data, line_len)
    IN IF nomem = 1 THEN [line |-> NULL, buf |-> buf]
       ELSE [line |-> Ptr([copied EXCEPT ![line_len + 1] = 0]),
             buf |-> [buf EXCEPT
                        !.data = IF remaining > 0
                                 THEN memmove(buf.data, line_len, remaining)
                                 ELSE buf.data]]

\* gnl_extract_line clearing eof_reached when it has emptied the buffer.
gnl_extract_line_clears_eof(buf, delim_pos, nomem) ==
    LET line_len == delim_pos + 1
        remaining == buf.len - line_len
        copied == memcpy(malloc(line_len + 1), buf.data, line_len)
    IN IF nomem = 1 THEN [line |-> NULL, buf |-> buf]
       ELSE [line |-> Ptr([copied EXCEPT ![line_len + 1] = 0]),
             buf |-> [buf EXCEPT
                        !.data = IF remaining > 0
                                 THEN memmove(buf.data, line_len, remaining)
                                 ELSE buf.data,
                        !.eof_reached = IF remaining > 0 THEN @ ELSE 0,
                        !.len = remaining]]

\* --------------------------------------------------------- gnl_extract_line
\* [line, buf]: the block returned (NULL when malloc fails) and the buffer.
gnl_extract_line(buf, delim_pos, nomem) ==
    LET line_len == delim_pos + 1
        remaining == buf.len - line_len
        copied == memcpy(malloc(line_len + 1), buf.data, line_len)
    IN IF nomem = 1 THEN [line |-> NULL, buf |-> buf]
       ELSE [line |-> Ptr([copied EXCEPT ![line_len + 1] = 0]),
             buf |-> [buf EXCEPT
                        !.data = IF remaining > 0
                                 THEN memmove(buf.data, line_len, remaining)
                                 ELSE buf.data,
                        !.len = remaining]]

\* gnl_fill_buffer taking a read shorter than the chunk for the end of the
\* stream.
gnl_fill_buffer_short_is_eof(buf, BUFFER_SIZE, nomem, rd, src) ==
    LET ec == gnl_ensure_capacity(buf, BUFFER_SIZE, nomem)
        b == ec.buf
    IN IF ec.rc < 0
       THEN [bytes_read |-> 0 - 1, buf |-> b, why |-> "AllocationError"]
       ELSE IF rd < 0
       THEN [bytes_read |-> 0 - 1, buf |-> b, why |-> "ReadError"]
       ELSE [bytes_read |-> rd,
             buf |-> [b EXCEPT
                        !.data = [i \in 1 .. b.size |->
                                    IF i > b.len /\ i <= b.len + rd
                                    THEN src[i - b.len]
                                    ELSE b.data[i]],
                        !.eof_reached = IF rd < BUFFER_SIZE THEN 1
                                        ELSE b.eof_reached,
                        !.len = b.len + rd],
             why |-> "NoError"]

\* gnl_fill_buffer with the end-of-stream test made before the error test,
\* as bytes_read <= 0.
gnl_fill_buffer_error_is_eof(buf, BUFFER_SIZE, nomem, rd, src) ==
    LET ec == gnl_ensure_capacity(buf, BUFFER_SIZE, nomem)
        b == ec.buf
    IN IF ec.rc < 0
       THEN [bytes_read |-> 0 - 1, buf |-> b, why |-> "AllocationError"]
       ELSE IF rd < 0
       THEN [bytes_read |-> 0 - 1, buf |-> [b EXCEPT !.eof_reached = 1],
             why |-> "ReadError"]
       ELSE [bytes_read |-> rd,
             buf |-> [b EXCEPT
                        !.data = [i \in 1 .. b.size |->
                                    IF i > b.len /\ i <= b.len + rd
                                    THEN src[i - b.len]
                                    ELSE b.data[i]],
                        !.eof_reached = IF rd = 0 THEN 1 ELSE b.eof_reached,
                        !.len = b.len + rd],
             why |-> "NoError"]

\* gnl_fill_buffer without the test of lines 129-130: a read of 0 bytes does
\* not set eof_reached.
gnl_fill_buffer_never_eof(buf, BUFFER_SIZE, nomem, rd, src) ==
    LET ec == gnl_ensure_capacity(buf, BUFFER_SIZE, nomem)
        b == ec.buf
    IN IF ec.rc < 0
       THEN [bytes_read |-> 0 - 1, buf |-> b, why |-> "AllocationError"]
       ELSE IF rd < 0
       THEN [bytes_read |-> 0 - 1, buf |-> b, why |-> "ReadError"]
       ELSE [bytes_read |-> rd,
             buf |-> [b EXCEPT
                        !.data = [i \in 1 .. b.size |->
                                    IF i > b.len /\ i <= b.len + rd
                                    THEN src[i - b.len]
                                    ELSE b.data[i]],
                        !.len = b.len + rd],
             why |-> "NoError"]

\* ---------------------------------------------------------- gnl_fill_buffer
\* In a build with chunk size BUFFER_SIZE; rd is what read(2) returns if it
\* is called and src the bytes it then stores.  [bytes_read, buf, why]
gnl_fill_buffer(buf, BUFFER_SIZE, nomem, rd, src) ==
    LET ec == gnl_ensure_capacity(buf, BUFFER_SIZE, nomem)
        b == ec.buf
    IN IF ec.rc < 0
       THEN [bytes_read |-> 0 - 1, buf |-> b, why |-> "AllocationError"]
       ELSE IF rd < 0
       THEN [bytes_read |-> 0 - 1, buf |-> b, why |-> "ReadError"]
       ELSE [bytes_read |-> rd,
             buf |-> [b EXCEPT
                        !.data = [i \in 1 .. b.size |->
                                    IF i > b.len /\ i <= b.len + rd
                                    THEN src[i - b.len]
                                    ELSE b.data[i]],
                        !.eof_reached = IF rd = 0 THEN 1 ELSE b.eof_reached,
                        !.len = b.len + rd],
             why |-> "NoError"]

\* gnl_find_delim finding the last delimiter of the buffer, not the first.
gnl_find_delim_last(buf, delim) ==
    IF \E i \in 1 .. buf.len : buf.data[i] = delim
    THEN (CHOOSE i \in 1 .. buf.len :
            buf.data[i] = delim /\ \A j \in (i + 1) .. buf.len : buf.data[j] # delim) - 1
    ELSE 0 - 1

\* gnl_find_delim scanning for the default delimiter whatever delim is.
gnl_find_delim_default(buf, delim) ==
    IF buf.len = 0 THEN 0 - 1
    ELSE memchr(buf.data, GNL_DEFAULT_DELIM, buf.len)

\* ----------------------------------------------------------- gnl_find_delim
gnl_find_delim(buf, delim) ==
    IF buf.len = 0 THEN 0 - 1
    ELSE memchr(buf.data, delim, buf.len)

\* The loop body returning GNL_EOF as soon as the stream has ended, with the
\* undelimited rest of the buffer never returned.
gnl_loop_body_drops_rest(buf, delim, BUFFER_SIZE, nomem, rd, src) ==
    LET delim_pos == gnl_find_delim(buf, delim)
        x == gnl_extract_line(buf, delim_pos, nomem)
        f == gnl_fill_buffer(buf, BUFFER_SIZE, nomem, rd, src)
    IN IF delim_pos >= 0
       THEN [done |-> TRUE,
             ret |-> IF x.line # NULL THEN GNL_LINE_READ ELSE GNL_ERROR,
             line |-> x.line, buf |-> x.buf, nread |-> 0,
             why |-> IF x.line # NULL THEN "NoError" ELSE "AllocationError"]
       ELSE IF buf.eof_reached # 0
       THEN [done |-> TRUE, ret |-> GNL_EOF, line |-> NULL, buf |-> buf,
             nread |-> 0, why |-> "NoError"]
       ELSE IF f.bytes_read < 0
       THEN [done |-> TRUE, ret |-> GNL_ERROR, line |-> NULL,
             buf |-> f.buf, nread |-> 0, why |-> f.why]
       ELSE [done |-> FALSE, ret |-> GNL_EOF, line |-> NULL,
             buf |-> f.buf, nread |-> f.bytes_read, why |-> "NoError"]

\* The loop body with the test at the end of the stream made as len >= 0:
\* an empty buffer gives an empty line, not GNL_EOF.
gnl_loop_body_empty_line(buf, delim, BUFFER_SIZE, nomem, rd, src) ==
    LET delim_pos == gnl_find_delim(buf, delim)
        at == IF delim_pos >= 0 THEN delim_pos ELSE buf.len - 1
        x == gnl_extract_line(buf, at, nomem)
        f == gnl_fill_buffer(buf, BUFFER_SIZE, nomem, rd, src)
    IN IF delim_pos >= 0 \/ buf.eof_reached # 0
       THEN [done |-> TRUE,
             ret |-> IF x.line # NULL THEN GNL_LINE_READ ELSE GNL_ERROR,
             line |-> x.line, buf |-> x.buf, nread |-> 0,
             why |-> IF x.line # NULL THEN "NoError" ELSE "AllocationError"]
       ELSE IF f.bytes_read < 0
       THEN [done |-> TRUE, ret |-> GNL_ERROR, line |-> NULL,
             buf |-> f.buf, nread |-> 0, why |-> f.why]
       ELSE [done |-> FALSE, ret |-> GNL_EOF, line |-> NULL,
             buf |-> f.buf, nread |-> f.bytes_read, why |-> "NoError"]

\* The loop body with eof_reached tested only while the buffer holds bytes:
\* once the buffer is drained the call reads again.
gnl_loop_body_rereads(buf, delim, BUFFER_SIZE, nomem, rd, src) ==
    LET delim_pos == gnl_find_delim(buf, delim)
        at == IF delim_pos >= 0 THEN delim_pos ELSE buf.len - 1
        x == gnl_extract_line(buf, at, nomem)
        f == gnl_fill_buffer(buf, BUFFER_SIZE, nomem, rd, src)
    IN IF delim_pos >= 0 \/ (buf.eof_reached # 0 /\ buf.len > 0)
       THEN [done |-> TRUE,
             ret |-> IF x.line # NULL THEN GNL_LINE_READ ELSE GNL_ERROR,
             line |-> x.line, buf |-> x.buf, nread |-> 0,
             why |-> IF x.line # NULL THEN "NoError" ELSE "AllocationError"]
       ELSE IF f.bytes_read < 0
       THEN [done |-> TRUE, ret |-> GNL_ERROR, line |-> NULL,
             buf |-> f.buf, nread |-> 0, why |-> f.why]
       ELSE IF f.bytes_read = 0
       THEN [done |-> TRUE, ret |-> GNL_EOF, line |-> NULL,
             buf |-> f.buf, nread |-> 0, why |-> "NoError"]
       ELSE [done |-> FALSE, ret |-> GNL_EOF, line |-> NULL,
             buf |-> f.buf, nread |-> f.bytes_read, why |-> "NoError"]

\* ------------------------------------------- get_next_line_delim, lines 187-207
\* One iteration of while (1) on the buffer buf.  [done, ret, line, buf,
\* nread, why]: whether the call returns, and then what; the buffer
\* afterwards; the bytes taken from the stream.
gnl_loop_body(buf, delim, BUFFER_SIZE, nomem, rd, src) ==
    LET delim_pos == gnl_find_delim(buf, delim)
        Extract(at) ==
            LET x == gnl_extract_line(buf, at, nomem)
            IN [done |-> TRUE,
                ret |-> IF x.line # NULL THEN GNL_LINE_READ ELSE GNL_ERROR,
                line |-> x.line, buf |-> x.buf, nread |-> 0,
                why |-> IF x.line # NULL THEN "NoError" ELSE "AllocationError"]
    IN IF delim_pos >= 0 THEN Extract(delim_pos)
       ELSE IF buf.eof_reached # 0
       THEN IF buf.len > 0 THEN Extract(buf.len - 1)
            ELSE [done |-> TRUE, ret |-> GNL_EOF, line |-> NULL, buf |-> buf,
                  nread |-> 0, why |-> "NoError"]
       ELSE LET f == gnl_fill_buffer(buf, BUFFER_SIZE, nomem, rd, src)
            IN IF f.bytes_read < 0
               THEN [done |-> TRUE, ret |-> GNL_ERROR, line |-> NULL,
                     buf |-> f.buf, nread |-> 0, why |-> f.why]
               ELSE [done |-> FALSE, ret |-> GNL_EOF, line |-> NULL,
                     buf |-> f.buf, nread |-> f.bytes_read, why |-> "NoError"]

\* --------------------------------------------------------- the return path
\* The bytes of a returned block without its terminating 0.
Segment(block) == SubSeq(block, 1, Len(block) - 1)

\* The calls on fd that have returned GNL_EOF so far.
NEofs(fd) == Cardinality({i \in 1 .. Len(out[fd]) : out[fd][i].ret = GNL_EOF})

\* get_next_line_delim returns ret on fd: the activation ends, and a
\* non-error result is appended to the descriptor's record.
Return(fd, delim, ret, why, newline) ==
    /\ frame' = NULL
    /\ res' = [ret |-> ret, why |-> why]
    /\ out' = IF ret = GNL_ERROR \/ fd \notin Fds THEN out
              ELSE [out EXCEPT ![fd] = Append(@,
                      [ret |-> ret,
                       seg |-> IF newline = NULL THEN <<>>
                               ELSE Segment(Deref(newline)),
                       delim |-> delim])]
    /\ nfail' = IF why = "ReadError" /\ fd \in opened
                THEN [nfail EXCEPT ![fd] = @ + 1] ELSE nfail
    /\ nnomem' = IF why = "AllocationError"
                 THEN [nnomem EXCEPT ![fd] = @ + 1] ELSE nnomem

\* The refusal returning 0, which is GNL_EOF, instead of GNL_ERROR.
RejectCall_returns_0(fd, delim, why) ==
    /\ Return(fd, delim, GNL_EOF, why, NULL)
    /\ UNCHANGED <<g_buffers, pos, line>>

\* ------------------------------------------- get_next_line_delim, lines 181-182
\* The call is refused: nothing but the return value is produced.
RejectCall(fd, delim, why) ==
    /\ Return(fd, delim, GNL_ERROR, why, NULL)
    /\ UNCHANGED <<g_buffers, pos, line>>

\* ------------------------------------------- get_next_line_delim, lines 175-186
\* The call: validation and gnl_get_buffer, up to the loop.  lineArg is the
\* caller's char **line: NULL, or the address of its variable line.
get_next_line_delim(fd, lineArg, delim) ==
    /\ frame = NULL
    /\ fd \in Fds => NEofs(0) + NEofs(1) < MaxEofs
    /\ IF lineArg = NULL \/ fd < 0 \/ fd >= GNL_MAX_FD
       THEN RejectCall(fd, delim, IF fd < 0 \/ fd >= GNL_MAX_FD
                                  THEN "InvalidHandle" ELSE "NullLine")
       ELSE \E nomem \in NoMem(2) :
              LET got == gnl_get_buffer(g_buffers, GNL_BUFFER_SIZE, fd, nomem)
              IN /\ line' = NULL
                 /\ g_buffers' = got.g
                 /\ pos' = pos
                 /\ IF got.buf = NULL
                    THEN Return(fd, delim, GNL_ERROR, "AllocationError", NULL)
                    ELSE /\ frame' = Ptr([fd |-> fd, delim |-> delim])
                         /\ UNCHANGED <<res, out, nfail, nnomem>>
    /\ UNCHANGED <<GNL_BUFFER_SIZE, opened, file, released, nclose>>
    /\ UNCHANGED bonus_vars

\* ------------------------------------------- get_next_line_delim, lines 187-207
\* The call in progress runs one iteration of its loop.
gnl_loop ==
    /\ frame # NULL
    /\ LET fd == Deref(frame).fd
           delim == Deref(frame).delim
       IN \E nomem \in NoMem(1), rd \in ReadResults(fd, GNL_BUFFER_SIZE) :
            LET it == gnl_loop_body(Deref(g_buffers[fd]), delim,
                                    GNL_BUFFER_SIZE, nomem, rd,
                                    Delivered(fd, rd))
            IN /\ g_buffers' = [g_buffers EXCEPT ![fd] = Ptr(it.buf)]
               /\ pos' = [pos EXCEPT ![fd] = @ + it.nread]
               /\ IF it.done
                  THEN /\ line' = it.line
                       /\ Return(fd, delim, it.ret, it.why, it.line)
                  ELSE UNCHANGED <<frame, line, res, out, nfail, nnomem>>
    /\ UNCHANGED <<GNL_BUFFER_SIZE, opened, file, released, nclose>>
    /\ UNCHANGED bonus_vars

\* gnl_close keeping a buffer that holds bytes not yet returned.
Closed_keeps_unread(g, fd) ==
    IF fd < 0 \/ fd >= GNL_MAX_FD THEN g
    ELSE IF g[fd] # NULL /\ Deref(g[fd]).len = 0 THEN [g EXCEPT ![fd] = NULL]
    ELSE g

\* gnl_close freeing the buffer of every descriptor.
Closed_frees_all(g, fd) ==
    IF fd < 0 \/ fd >= GNL_MAX_FD THEN g
    ELSE [h \in Fds |-> NULL]

\* gnl_close freeing the buffer and leaving its pointer in the registry.
Closed_keeps_pointer(g, fd) == g

\* ---------------------------------------------------------------- gnl_close
\* The registry after gnl_close(fd) on the registry g.
Closed(g, fd) ==
    IF fd < 0 \/ fd >= GNL_MAX_FD THEN g
    ELSE IF g[fd] # NULL THEN [g EXCEPT ![fd] = NULL]
    ELSE g

gnl_close(fd) ==
    /\ frame = NULL
    /\ NEvents < MaxEvents
    /\ g_buffers' = Closed(g_buffers, fd)
    /\ released' = [h \in Fds |-> released[h] \/ g_buffers'[h] # g_buffers[h]]
    /\ nclose' = IF g_buffers' # g_buffers THEN nclose + 1 ELSE nclose
    /\ UNCHANGED <<GNL_BUFFER_SIZE, opened, file, pos, frame, line, res, out,
                   nfail, nnomem>>
    /\ UNCHANGED bonus_vars

\* The loop of gnl_cleanup_all started after its first descriptor.
ClosedFrom_skips_first(g, i) == [h \in Fds |-> IF h > i THEN NULL ELSE g[h]]

\* ---------------------------------------------------------- gnl_cleanup_all
RECURSIVE ClosedFrom(_, _)
ClosedFrom(g, i) ==
    IF i < GNL_MAX_FD THEN ClosedFrom(Closed(g, i), i + 1) ELSE g

gnl_cleanup_all ==
    /\ frame = NULL
    /\ NEvents < MaxEvents
    /\ g_buffers' = ClosedFrom(g_buffers, 0)
    /\ released' = [h \in Fds |-> released[h] \/ g_buffers'[h] # g_buffers[h]]
    /\ nclose' = IF g_buffers' # g_buffers THEN nclose + 1 ELSE nclose
    /\ UNCHANGED <<GNL_BUFFER_SIZE, opened, file, pos, frame, line, res, out,
                   nfail, nnomem>>
    /\ UNCHANGED bonus_vars

\* ---------------------------------------------------- get_next_line_bonus.c
\* A string is a block of bytes that holds its terminating 0.
ft_strlen(str) ==
    (CHOOSE x \in 1 .. Len(str) : str[x] = 0 /\ \A j \in 1 .. (x - 1) : str[j] # 0) - 1

\* The bytes of a string before its terminating 0.
CStr(str) == SubSeq(str, 1, ft_strlen(str))

ft_strchr(s, c) ==
    IF s = NULL THEN 0
    ELSE IF c = 0 THEN 1
    ELSE IF \E i \in 1 .. ft_strlen(Deref(s)) : Deref(s)[i] = c THEN 1
    ELSE 0

ft_strjoin(first_str, second_str) ==
    LET first == IF first_str = NULL THEN <<0>> ELSE Deref(first_str)
    IN IF second_str = NULL THEN NULL
       ELSE LET second == Deref(second_str)
                n1 == ft_strlen(first)
                n2 == ft_strlen(second)
                str == malloc(n1 + n2 + 1)
            IN Ptr([i \in 1 .. Len(str) |->
                      IF i <= n1 THEN first[i]
                      ELSE IF i <= n1 + n2 THEN second[i - n1]
                      ELSE IF i = n1 + n2 + 1 THEN 0
                      ELSE str[i]])

\* The offset in the string str of its first '\n', or of its terminating 0.
LineEnd(str) ==
    LET n == ft_strlen(str)
    IN IF \E i \in 1 .. n : str[i] = 10
       THEN (CHOOSE i \in 1 .. n : str[i] = 10 /\ \A j \in 1 .. (i - 1) : str[j] # 10) - 1
       ELSE n

\* The loop of lines 37-38 copies str[i + 1 .. strlen] (the terminating 0
\* with it) when str[i] is '\n', and nothing when str[i] is the 0.
ft_next_line(str) ==
    IF str = NULL THEN NULL
    ELSE LET s == Deref(str)
             i == LineEnd(s)
             right_line == malloc(ft_strlen(s) - i + 1)
             j == IF s[i + 1] = 0 THEN 0 ELSE ft_strlen(s) - i
         IN Ptr([k \in 1 .. Len(right_line) |->
                   IF k <= j THEN s[i + 1 + k]
                   ELSE IF k = j + 1 THEN 0
                   ELSE right_line[k]])

\* ft_save_line without lines 72-73: the '\n' is not copied.
ft_save_line_drops_newline(str) ==
    IF str = NULL THEN NULL
    ELSE IF Deref(str)[1] = 0 THEN NULL
    ELSE LET s == Deref(str)
             i == LineEnd(s)
             new_line == malloc(IF s[i + 1] = 10 THEN i + 2 ELSE i + 1)
         IN Ptr([k \in 1 .. Len(new_line) |->
                   IF k <= i THEN s[k]
                   ELSE IF k = i + 1 THEN 0
                   ELSE new_line[k]])

ft_save_line(str) ==
    IF str = NULL THEN NULL
    ELSE IF Deref(str)[1] = 0 THEN NULL
    ELSE LET s == Deref(str)
             i == LineEnd(s)
             new_line == malloc(IF s[i + 1] = 10 THEN i + 2 ELSE i + 1)
             last == IF s[i + 1] = 10 THEN i + 1 ELSE i
         IN Ptr([k \in 1 .. Len(new_line) |->
                   IF k <= i THEN s[k]
                   ELSE IF k = i + 1 /\ s[i + 1] = 10 THEN 10
                   ELSE IF k = last + 1 THEN 0
                   ELSE new_line[k]])

\* buff after read(fd, buff, BUFFER_SIZE) returned byread with the bytes src
\* and line 103 stored the terminating 0.
Buff(BUFFER_SIZE, byread, src) ==
    [k \in 1 .. (BUFFER_SIZE + 1) |->
       IF k <= byread THEN src[k]
       ELSE IF k = byread + 1 THEN 0
       ELSE malloc(BUFFER_SIZE + 1)[k]]

\* The loop of ft_read_line on the stream content at offset p, every read
\* returning: the set of [str, pos] it can end with, one for each way read
\* splits the data.
RECURSIVE ft_read_loop(_, _, _, _, _)
ft_read_loop(str, byread, content, p, BUFFER_SIZE) ==
    IF ft_strchr(str, 10) = 0 /\ byread # 0
    THEN UNION {
           ft_read_loop(ft_strjoin(str, Ptr(Buff(BUFFER_SIZE, rd,
                                                SubSeq(content, p + 1, p + rd)))),
                        rd, content, p + rd, BUFFER_SIZE) :
           rd \in IF p = Len(content) THEN {0}
                  ELSE 1 .. Min(BUFFER_SIZE, Len(content) - p)}
    ELSE {[str |-> str, pos |-> p]}

ft_read_line(str, content, p, BUFFER_SIZE) ==
    ft_read_loop(str, 1, content, p, BUFFER_SIZE)

\* The calls on fd of the other program that have returned NULL so far.
NNulls(fd) == Cardinality({i \in 1 .. Len(bout[fd]) : bout[fd][i] = NULL})

\* get_next_line(fd) of get_next_line_bonus.c, with 0 <= fd < 1024 and
\* BUFFER_SIZE > 0; read(fd, 0, 0) fails on a descriptor that is not open.
get_next_line_bonus(fd) ==
    /\ NNulls(fd) < MaxEofs
    /\ IF fd \notin opened
       THEN /\ container' = [container EXCEPT ![fd] = NULL]
            /\ bout' = [bout EXCEPT ![fd] = Append(@, NULL)]
            /\ bpos' = bpos
       ELSE \E o \in ft_read_line(container[fd], file[fd], bpos[fd],
                                  BONUS_BUFFER_SIZE) :
              LET buffer == ft_save_line(o.str)
                  rest == ft_next_line(o.str)
              IN /\ bpos' = [bpos EXCEPT ![fd] = o.pos]
                 /\ IF o.str = NULL \/ buffer = NULL
                    THEN /\ container' = [container EXCEPT ![fd] = NULL]
                         /\ bout' = [bout EXCEPT ![fd] = Append(@, NULL)]
                    ELSE /\ container' = [container EXCEPT ![fd] = rest]
                         /\ bout' = [bout EXCEPT ![fd] =
                                       Append(@, IF rest = NULL THEN NULL
                                                 ELSE buffer)]
    /\ UNCHANGED <<g_buffers, GNL_BUFFER_SIZE, opened, file, pos, frame, line,
                   res, out, released, nfail, nnomem, nclose,
                   BONUS_BUFFER_SIZE>>

\* ------------------------------------------------- get_next_line, lines 219-222
get_next_line(fd, lineArg) == get_next_line_delim(fd, lineArg, GNL_DEFAULT_DELIM)

\* ------------------------------------------------------------ specification
\* The caller's variable line, whose address it passes.
LineVar == Ptr("line")

Contents == SeqsUpTo(Bytes, MaxLen)

\* What is the same in every initial state: nothing allocated, called or read.
Fresh ==
    /\ g_buffers = [fd \in Fds |-> NULL]
    /\ GNL_BUFFER_SIZE \in 1 .. MaxChunk
    /\ pos = [fd \in Fds |-> 0]
    /\ frame = NULL
    /\ line = NULL
    /\ res = [ret |-> GNL_EOF, why |-> "NoCall"]
    /\ out = [fd \in Fds |-> <<>>]
    /\ released = [fd \in Fds |-> FALSE]
    /\ nfail = [fd \in Fds |-> 0]
    /\ nnomem = [fd \in Fds |-> 0]
    /\ nclose = 0
    /\ container = [fd \in Fds |-> NULL]
    /\ bpos = [fd \in Fds |-> 0]
    /\ bout = [fd \in Fds |-> <<>>]

\* One open descriptor, 0, on any stream of up to MaxLen bytes or on one of
\* the two scenario streams; descriptor 1 is not open.
Init ==
    /\ Fresh
    /\ BONUS_BUFFER_SIZE = GNL_BUFFER_SIZE
    /\ opened = {0}
    /\ file \in [Fds -> Contents \cup {Scenario1, Scenario2}]
    /\ file[1] = <<>>

Next ==
    \/ \E fd \in FdArgs, lineArg \in {NULL, LineVar}, delim \in Delims :
         get_next_line_delim(fd, lineArg, delim)
    \/ gnl_loop
    \/ \E fd \in FdArgs : gnl_close(fd)
    \/ gnl_cleanup_all

Spec == Init /\ [][Next]_vars

\* Two open descriptors, each on a stream of its own that has data, of up to
\* MaxLen bytes together.  The code treats every descriptor alike (g_buffers
\* is indexed by fd and by nothing else), so the longer stream is put on
\* descriptor 0.
InitTwo ==
    /\ Fresh
    /\ BONUS_BUFFER_SIZE = GNL_BUFFER_SIZE
    /\ opened = Fds
    /\ file \in [Fds -> Contents \ {<<>>}]
    /\ Len(file[0]) + Len(file[1]) <= MaxLen
    /\ Len(file[1]) <= Len(file[0])
    /\ file[0] # file[1]

SpecTwo == InitTwo /\ [][Next]_vars

\* One open descriptor, 0, on any stream of up to MaxLen bytes '\n' and 'a'.
InitLive ==
    /\ Fresh
    /\ BONUS_BUFFER_SIZE = GNL_BUFFER_SIZE
    /\ opened = {0}
    /\ file \in [Fds -> SeqsUpTo({GNL_DEFAULT_DELIM, 97}, MaxLen)]
    /\ file[1] = <<>>

\* Every read(2) returns: the call in progress goes on with its loop.
SpecLive == InitLive /\ [][Next]_vars /\ WF_vars(gnl_loop)

\* The writer at the other end of the stream behind fd (a pipe, a terminal,
\* a file being appended to) adds a byte.  A reader sees the stream through
\* the results of read(2) only, so the bytes it has not reached yet are
\* taken to be there from the start, and the writer acts when the reader
\* has caught up.
Grow(fd) ==
    /\ pos[fd] = Len(file[fd])
    /\ Len(file[fd]) < MaxLen
    /\ \E b \in {GNL_DEFAULT_DELIM, 97} : file' = [file EXCEPT ![fd] = Append(@, b)]
    /\ UNCHANGED <<g_buffers, GNL_BUFFER_SIZE, opened, pos, frame, line, res,
                   out, released, nfail, nnomem, nclose>>
    /\ UNCHANGED bonus_vars

NextGrow ==
    \/ Next
    \/ \E fd \in opened : Grow(fd)

\* One open descriptor on a stream of '\n' and 'a' that may grow to MaxLen
\* bytes.
SpecGrow == InitLive /\ [][NextGrow]_vars

\* The two programs, each built with a chunk size of its own, read the same
\* stream of up to MaxLen bytes, or "ab\ncd\nef", through descriptor 0.
InitBonus ==
    /\ Fresh
    /\ BONUS_BUFFER_SIZE \in 1 .. MaxChunk
    /\ opened = {0}
    /\ file \in [Fds -> Contents \cup {Scenario1}]
    /\ file[1] = <<>>

NextBonus ==
    \/ \E fd \in Fds : get_next_line(fd, LineVar)
    \/ gnl_loop
    \/ \E fd \in Fds : get_next_line_bonus(fd)

SpecBonus == InitBonus /\ [][NextBonus]_vars

\* ------------------------------------------------------------------ claims
\* The results of the calls on fd that ended before result number n.
Before(fd, n) == SubSeq(out[fd], 1, n - 1)

\* The index of the first GNL_EOF result on fd, or 0.
FirstEof(fd) ==
    IF NEofs(fd) = 0 THEN 0
    ELSE CHOOSE i \in 1 .. Len(out[fd]) :
           /\ out[fd][i].ret = GNL_EOF
           /\ \A j \in 1 .. (i - 1) : out[fd][j].ret # GNL_EOF

\* Every call on fd so far was made with the same delimiter.
FixedDelim(fd) ==
    \A i, j \in 1 .. Len(out[fd]) : out[fd][i].delim = out[fd][j].delim

\* No failure was injected into a call on fd and no buffer of fd was freed.
Undisturbed(fd) == nfail[fd] = 0 /\ nnomem[fd] = 0 /\ ~released[fd]

RECURSIVE Concat(_)
Concat(results) ==
    IF results = <<>> THEN <<>>
    ELSE Head(results).seg \o Concat(Tail(results))

\* The segments among results, in order.
Segs(results) == [i \in 1 .. Len(results) |-> results[i].seg]

\* The reference split of content after each occurrence of d.
RECURSIVE Split(_, _)
Split(content, d) ==
    IF content = <<>> THEN <<>>
    ELSE LET n == Len(content)
             k == IF \E i \in 1 .. n : content[i] = d
                  THEN CHOOSE i \in 1 .. n :
                         content[i] = d /\ \A j \in 1 .. (i - 1) : content[j] # d
                  ELSE n
         IN <<SubSeq(content, 1, k)>> \o Split(SubSeq(content, k + 1, n), d)

\* C1: with one delimiter, no failure and no release, the segments returned
\* on a descriptor up to its first GNL_EOF, concatenated in call order, are
\* exactly the bytes of its stream.
C1_NoLossNoDuplication ==
    \A fd \in Fds :
      (FixedDelim(fd) /\ Undisturbed(fd) /\ NEofs(fd) > 0)
        => Concat(Before(fd, FirstEof(fd))) = file[fd]

\* A stream of three bytes was read to its end in two segments or more.
C1_Witness ==
    /\ frame = NULL /\ FixedDelim(0) /\ Undisturbed(0)
    /\ Len(file[0]) = 3 /\ FirstEof(0) >= 3

\* C2: a returned segment holds the delimiter of its call exactly once, as
\* its last byte, unless the stream had reported its end, and then it holds no
\* delimiter and every later result on the descriptor is GNL_EOF.
C2_DelimiterTerminated ==
    \A fd \in Fds : \A i \in 1 .. Len(out[fd]) :
      LET r == out[fd][i]
          n == Len(r.seg)
      IN r.ret = GNL_LINE_READ =>
           /\ n >= 1
           /\ \A j \in 1 .. (n - 1) : r.seg[j] # r.delim
           /\ r.seg[n] # r.delim =>
                /\ pos[fd] = Len(file[fd])
                /\ \A k \in (i + 1) .. Len(out[fd]) : out[fd][k].ret = GNL_EOF
                /\ (g_buffers[fd] # NULL /\ ~released[fd])
                     => Deref(g_buffers[fd]).eof_reached = 1

\* A delimited segment, then an undelimited last one, then GNL_EOF.
C2_Witness ==
    /\ frame = NULL /\ FixedDelim(0) /\ Len(out[0]) = 3
    /\ out[0][1].ret = GNL_LINE_READ
    /\ out[0][1].seg[Len(out[0][1].seg)] = out[0][1].delim
    /\ out[0][2].ret = GNL_LINE_READ
    /\ out[0][2].seg[Len(out[0][2].seg)] # out[0][2].delim
    /\ out[0][3].ret = GNL_EOF

\* The results so far on fd are the pieces, in order, then only GNL_EOF.
Follows(fd, pieces) ==
    \A i \in 1 .. Len(out[fd]) :
      IF i <= Len(pieces)
      THEN out[fd][i].ret = GNL_LINE_READ /\ out[fd][i].seg = pieces[i]
      ELSE out[fd][i].ret = GNL_EOF /\ out[fd][i].seg = <<>>

\* The stream content was read on descriptor 0 to GNL_EOF, every call with
\* the delimiter d.
ReadThrough(content, d) ==
    /\ file[0] = content /\ Undisturbed(0) /\ NEofs(0) > 0
    /\ \A i \in 1 .. Len(out[0]) : out[0][i].delim = d

\* C3: with one delimiter d, no failure and no release, the results on a
\* descriptor are the pieces of the reference split of its stream after each
\* d, in order, followed by GNL_EOF; "ab\ncd\nef" with '\n' gives "ab\n",
\* "cd\n", "ef", GNL_EOF and "a,b,,c" with ',' gives "a,", "b,", ",", "c",
\* GNL_EOF.
C3_ReferenceSplit ==
    /\ \A fd \in Fds :
         (FixedDelim(fd) /\ Undisturbed(fd) /\ out[fd] # <<>>)
           => Follows(fd, Split(file[fd], out[fd][1].delim))
    /\ ReadThrough(Scenario1, 10) =>
         /\ Segs(Before(0, FirstEof(0))) =
              <<<<97, 98, 10>>, <<99, 100, 10>>, <<101, 102>>>>
         /\ FirstEof(0) = 4
    /\ ReadThrough(Scenario2, 44) =>
         /\ Segs(Before(0, FirstEof(0))) =
              <<<<97, 44>>, <<98, 44>>, <<44>>, <<99>>>>
         /\ FirstEof(0) = 5

\* The second scenario read to its end: four segments, the third the lone
\* delimiter at offset 0 of the unread data, then GNL_EOF.
C3_Witness ==
    /\ frame = NULL /\ ReadThrough(Scenario2, 44) /\ Len(out[0]) = 5
    /\ out[0][3].seg = <<44>>

\* The segments, up to the first GNL_EOF, of calls with delimiter d in the
\* build with chunk size 1, whose every read delivers one byte: the loop of
\* get_next_line_delim run on buf with the stream at offset p.
RECURSIVE RunByteWise(_, _, _, _)
RunByteWise(buf, content, p, d) ==
    LET rd == IF p = Len(content) THEN 0 ELSE 1
        it == gnl_loop_body(buf, d, 1, 0, rd, SubSeq(content, p + 1, p + rd))
    IN IF ~it.done THEN RunByteWise(it.buf, content, p + it.nread, d)
       ELSE IF it.ret = GNL_LINE_READ
       THEN <<Segment(Deref(it.line))>>
              \o RunByteWise(it.buf, content, p, d)
       ELSE <<>>

ByteWise(content, d) ==
    RunByteWise(Deref(gnl_get_buffer([fd \in Fds |-> NULL], 1, 0, 0).buf),
                content, 0, d)

\* C4: with one delimiter, no failure and no release, the results on a
\* descriptor, whatever the chunk size of the build and however read split
\* the data, are those of the build with chunk size 1 on the same stream.
C4_ChunkIndependent ==
    \A fd \in Fds :
      (frame = NULL /\ FixedDelim(fd) /\ Undisturbed(fd) /\ out[fd] # <<>>)
        => Follows(fd, ByteWise(file[fd], out[fd][1].delim))

\* In a build with chunk size 2, a segment returned after a short read: one
\* byte delivered of the three the stream has.
C4_Witness ==
    /\ frame = NULL /\ GNL_BUFFER_SIZE = 2 /\ Undisturbed(0)
    /\ Len(file[0]) = 3 /\ pos[0] = 1 /\ Len(out[0]) = 1

\* The step belongs to a call on the descriptor h: the call in progress
\* runs an iteration of its loop, or a call enters its loop, or a call
\* returns from lines 181-186.
CallOn(h) ==
    \/ frame # NULL /\ Deref(frame).fd = h
    \/ frame' # NULL /\ Deref(frame').fd = h
    \/ /\ frame = NULL /\ frame' = NULL /\ res' # res
       /\ \E lineArg \in {NULL, LineVar}, delim \in Delims :
            get_next_line_delim(h, lineArg, delim)

\* The step leaves the buffer, the stream and the results of every
\* descriptor but h as they are.
OthersUntouched(h) ==
    \A o \in Fds \ {h} :
      g_buffers'[o] = g_buffers[o] /\ pos'[o] = pos[o] /\ out'[o] = out[o]

\* C5: with two descriptors on two streams, a call or a release on one changes
\* nothing of the other's buffer state, and each descriptor's results, with
\* one delimiter and nothing injected into its own calls, are those of its
\* stream read alone, whatever was called, failed or released on the other.
C5_HandlesIndependent ==
    /\ [](\A h \in Fds :
            (frame = NULL /\ FixedDelim(h) /\ Undisturbed(h) /\ out[h] # <<>>)
              => Follows(h, ByteWise(file[h], out[h][1].delim)))
    /\ [][\A h \in Fds : (CallOn(h) \/ gnl_close(h)) => OthersUntouched(h)]_vars

\* Descriptor 0 read to its end in two results or more, with results on
\* descriptor 1 and its buffer released.
C5_Witness ==
    /\ frame = NULL /\ opened = Fds /\ Undisturbed(0) /\ FixedDelim(0)
    /\ NEofs(0) = 1 /\ Len(out[0]) >= 2
    /\ out[1] # <<>> /\ released[1]

\* C6: on an open descriptor whose stream has no byte, the first call returns
\* GNL_EOF with no segment, and leaves len = 0 and eof_reached set.
C6_EmptyStream ==
    \A fd \in opened :
      (file[fd] = <<>> /\ Undisturbed(fd) /\ out[fd] # <<>>)
        => /\ out[fd][1].ret = GNL_EOF
           /\ out[fd][1].seg = <<>>
           /\ line = NULL
           /\ g_buffers[fd] # NULL
           /\ Deref(g_buffers[fd]).len = 0
           /\ Deref(g_buffers[fd]).eof_reached = 1

\* The first call on the empty stream has returned.
C6_Witness ==
    /\ frame = NULL /\ file[0] = <<>> /\ Undisturbed(0) /\ Len(out[0]) = 1
    /\ res = [ret |-> GNL_EOF, why |-> "NoError"]

\* The last byte of a non-empty sequence.
Last(seq) == seq[Len(seq)]

\* C7: with one delimiter d, no failure and no release: when the stream ends
\* in d, the result before the first GNL_EOF is a segment ending in d and no
\* segment is empty; when it ends without d, the result before the first
\* GNL_EOF is the whole undelimited rest of the stream, and once that rest
\* is returned len = 0.
C7_EndOfStream ==
    \A fd \in Fds :
      (FixedDelim(fd) /\ Undisturbed(fd) /\ out[fd] # <<>> /\ file[fd] # <<>>)
        => LET d == out[fd][1].delim
               k == FirstEof(fd)
               n == Len(out[fd])
               rest == Last(Split(file[fd], d))
           IN /\ \A i \in 1 .. n :
                   out[fd][i].ret = GNL_LINE_READ => Len(out[fd][i].seg) >= 1
              /\ k > 0 =>
                   /\ k >= 2
                   /\ out[fd][k - 1].ret = GNL_LINE_READ
                   /\ out[fd][k - 1].seg = rest
                   /\ Last(file[fd]) = d => Last(out[fd][k - 1].seg) = d
              /\ (/\ frame = NULL
                  /\ out[fd][n].ret = GNL_LINE_READ
                  /\ Last(out[fd][n].seg) # d)
                   => /\ out[fd][n].seg = rest
                      /\ Deref(g_buffers[fd]).len = 0

\* The undelimited rest of a stream was returned after a delimited segment,
\* and the call after it returned GNL_EOF.
C7_Witness ==
    /\ frame = NULL /\ FixedDelim(0) /\ Undisturbed(0) /\ FirstEof(0) = 3
    /\ Last(out[0][1].seg) = out[0][1].delim
    /\ Last(out[0][2].seg) # out[0][2].delim

\* C8: gnl_close is idempotent and total: on every registry reached, closing
\* a descriptor twice gives the registry that closing it once gives, the
\* descriptor closed has no buffer, and closing a descriptor that has no
\* buffer or is out of range changes nothing; a gnl_close step changes only
\* the registry, and no return value.
C8_ReleaseIdempotent ==
    /\ [](\A h \in FdArgs :
            /\ Closed(Closed(g_buffers, h), h) = Closed(g_buffers, h)
            /\ h \in Fds => Closed(g_buffers, h)[h] = NULL
            /\ (h \notin Fds \/ g_buffers[h] = NULL)
                 => Closed(g_buffers, h) = g_buffers)
    /\ [][\A h \in FdArgs :
            gnl_close(h) =>
              /\ g_buffers' = Closed(g_buffers, h)
              /\ \A o \in Fds \ {h} : g_buffers'[o] = g_buffers[o]
              /\ UNCHANGED <<file, pos, frame, line, res, out>>]_vars

\* A buffer holding unread bytes was released.
C8_Witness ==
    /\ released[0] /\ g_buffers[0] = NULL /\ out[0] # <<>>
    /\ pos[0] > Len(Concat(out[0]))

\* C9: a call with a descriptor below 0 or not below GNL_MAX_FD returns
\* GNL_ERROR, reads from no stream, creates no buffer and leaves the registry
\* as it is.
C9_InvalidHandle ==
    [][\A fd \in FdArgs \ Fds, lineArg \in {NULL, LineVar}, delim \in Delims :
         get_next_line_delim(fd, lineArg, delim) =>
           /\ res'.ret = GNL_ERROR
           /\ frame' = NULL
           /\ UNCHANGED <<g_buffers, pos, out>>]_vars

\* A call with an invalid descriptor returned while descriptor 0 held
\* buffered bytes.
C9_Witness ==
    /\ frame = NULL /\ res.why = "InvalidHandle"
    /\ g_buffers[0] # NULL /\ Deref(g_buffers[0]).len > 0

\* A step in which the read of the call in progress fails.
ReadFails == gnl_loop /\ frame' = NULL /\ res'.why = "ReadError"

\* C10: when read fails, the call returns GNL_ERROR with no segment, and
\* len, eof_reached and the bytes data[0, len) of the descriptor's buffer are
\* what they were before that read; the results of the calls on the
\* descriptor, failed reads among them, are still those of its stream.
C10_ReadError ==
    /\ [][ReadFails =>
            LET fd == Deref(frame).fd
                before == Deref(g_buffers[fd])
                after == Deref(g_buffers'[fd])
            IN /\ res'.ret = GNL_ERROR
               /\ line' = NULL
               /\ after.len = before.len
               /\ after.eof_reached = before.eof_reached
               /\ SubSeq(after.data, 1, after.len)
                    = SubSeq(before.data, 1, before.len)
               /\ UNCHANGED <<pos, out>>]_vars
    /\ [](\A fd \in Fds :
            (/\ nfail[fd] > 0 /\ nnomem[fd] = 0 /\ ~released[fd]
             /\ FixedDelim(fd) /\ out[fd] # <<>>)
              => Follows(fd, Split(file[fd], out[fd][1].delim)))

\* After a failed read on descriptor 0 its stream was read to the end.
C10_Witness ==
    /\ frame = NULL /\ nfail[0] > 0 /\ FixedDelim(0)
    /\ NEofs(0) > 0 /\ Len(out[0]) >= 3


\* C11: the step in which calloc, malloc or realloc fails returns GNL_ERROR
\* with *line NULL and leaves the whole registry as it was: a failed creation
\* leaves no entry, a failed growth or extraction leaves size, len,
\* eof_reached and data of the buffer unchanged, and no byte is taken from
\* the stream; the results of the calls on the descriptor, failed
\* allocations among them, are still those of its stream.
C11_AllocationError ==
    /\ [][nnomem' # nnomem =>
            /\ res' = [ret |-> GNL_ERROR, why |-> "AllocationError"]
            /\ frame' = NULL
            /\ line' = NULL
            /\ g_buffers' = g_buffers
            /\ UNCHANGED <<pos, out>>]_vars
    /\ [](\A fd \in Fds :
            (/\ nnomem[fd] > 0 /\ nfail[fd] = 0 /\ ~released[fd]
             /\ FixedDelim(fd) /\ out[fd] # <<>>)
              => Follows(fd, Split(file[fd], out[fd][1].delim)))

\* realloc failed in gnl_ensure_capacity: the call returned the allocation
\* error on a buffer that holds bytes, no delimiter among them, has not seen
\* the end of the stream and has no room for a chunk.
C11_Witness ==
    /\ frame = NULL /\ res.why = "AllocationError" /\ g_buffers[0] # NULL
    /\ LET buf == Deref(g_buffers[0])
       IN /\ buf.len > 0 /\ buf.eof_reached = 0
          /\ buf.size - buf.len < GNL_BUFFER_SIZE
          /\ \A i \in 1 .. buf.len : buf.data[i] \notin Delims


\* What the call in progress on fd can still take from its stream: the bytes
\* not yet delivered, and the read of 0 bytes that ends them.
Remaining(fd) ==
    (Len(file[fd]) - pos[fd]) + (1 - Deref(g_buffers[fd]).eof_reached)

\* The buffer of the call in progress holds the delimiter of the call, or
\* has seen the end of the stream.
Decided ==
    LET buf == Deref(g_buffers[Deref(frame).fd])
    IN \/ buf.eof_reached # 0
       \/ \E i \in 1 .. buf.len : buf.data[i] = Deref(frame).delim

\* C12: every call returns, each read(2) returning: an iteration of the loop
\* that does not return has read, taking bytes from the stream or setting
\* eof_reached on a read of 0 bytes, so that what the stream can still give
\* shrinks; an iteration on a buffer that holds the delimiter or has
\* eof_reached set returns, so the iterations of a call are its reads and
\* one more.
C12_Terminates ==
    /\ (frame # NULL) ~> (frame = NULL)
    /\ [][(frame # NULL /\ frame' # NULL) =>
            LET fd == Deref(frame).fd
                before == Deref(g_buffers[fd])
                after == Deref(g_buffers'[fd])
            IN /\ ~Decided
               /\ \/ pos'[fd] > pos[fd]
                  \/ before.eof_reached = 0 /\ after.eof_reached = 1
               /\ Remaining(fd)' < Remaining(fd)
               /\ Remaining(fd)' >= 0]_vars
    /\ [][(frame # NULL /\ Decided) => frame' = NULL]_vars

\* In the build with chunk size 1 a call returned a segment of three bytes:
\* three reads or more, and the iteration that extracts.
C12_Witness ==
    /\ frame = NULL /\ GNL_BUFFER_SIZE = 1 /\ Undisturbed(0)
    /\ Len(out[0]) = 1 /\ Len(out[0][1].seg) = 3


\* The bytes data[0, len) of a buffer.
Filled(buf) == SubSeq(buf.data, 1, buf.len)

\* The segment the step returns on fd, empty if it returns none.
Returned(fd) ==
    IF out'[fd] # out[fd] THEN Last(out'[fd]).seg ELSE <<>>

\* C13: for every descriptor that has a buffer, 0 <= len <= size; the bytes
\* returned so far followed by data[0, len) are the bytes read from the
\* stream so far, as long as no buffer of the descriptor was freed; in
\* every step the segment returned followed by the new data[0, len) is the
\* old data[0, len) followed by the bytes the step read; and a step that
\* reads has room for a chunk at data + len and changes no byte outside
\* the bytes it read.
C13_BufferInvariant ==
    /\ [](\A fd \in Fds : g_buffers[fd] # NULL =>
            LET buf == Deref(g_buffers[fd])
            IN /\ 0 <= buf.len /\ buf.len <= buf.size
               /\ Len(buf.data) = buf.size
               /\ ~released[fd] =>
                    Concat(out[fd]) \o Filled(buf)
                      = SubSeq(file[fd], 1, pos[fd]))
    /\ [][\A fd \in Fds : (g_buffers[fd] # NULL /\ g_buffers'[fd] # NULL) =>
            LET before == Deref(g_buffers[fd])
                after == Deref(g_buffers'[fd])
                nread == pos'[fd] - pos[fd]
            IN /\ Returned(fd) \o Filled(after)
                    = Filled(before) \o SubSeq(file[fd], pos[fd] + 1, pos'[fd])
               /\ (nread > 0 \/ after.eof_reached # before.eof_reached
                   \/ (frame' = NULL /\ res'.why = "ReadError"
                       /\ frame # NULL /\ Deref(frame).fd = fd)) =>
                    /\ before.len + GNL_BUFFER_SIZE <= after.size
                    /\ \A i \in 1 .. after.size :
                         (i <= before.len \/ i > before.len + nread) =>
                           after.data[i] = IF i <= before.size
                                           THEN before.data[i] ELSE Undef]_vars

\* A buffer that has grown holds unread bytes after a segment was returned.
C13_Witness ==
    /\ frame = NULL /\ g_buffers[0] # NULL /\ ~released[0]
    /\ LET buf == Deref(g_buffers[0])
       IN buf.size > GNL_BUFFER_SIZE /\ buf.len > 0
    /\ out[0] # <<>> /\ Len(out[0][1].seg) > 0


\* The step is an iteration of the call in progress on fd whose read
\* returns 0 bytes: the call goes on and the stream offset stays.
ReadsZero(fd) ==
    /\ frame # NULL /\ Deref(frame).fd = fd
    /\ frame' # NULL /\ pos'[fd] = pos[fd]

\* C14: while a descriptor keeps its buffer, eof_reached is 0 or 1, stays 1
\* once it is 1 whatever is called, read or fails, and goes from 0 to 1 in
\* exactly the steps whose read returns 0 bytes.
C14_ExhaustedMonotonic ==
    /\ [](\A fd \in Fds : g_buffers[fd] # NULL =>
            Deref(g_buffers[fd]).eof_reached \in {0, 1})
    /\ [][\A fd \in Fds : (g_buffers[fd] # NULL /\ g_buffers'[fd] # NULL) =>
            LET before == Deref(g_buffers[fd]).eof_reached
                after == Deref(g_buffers'[fd]).eof_reached
            IN /\ before = 1 => after = 1
               /\ (before = 0 /\ after = 1) <=> (before = 0 /\ ReadsZero(fd))]_vars

\* Two calls returned GNL_EOF on a buffer that was never freed: the second
\* one was made with eof_reached set.
C14_Witness ==
    /\ frame = NULL /\ g_buffers[0] # NULL /\ ~released[0]
    /\ Deref(g_buffers[0]).eof_reached = 1 /\ NEofs(0) >= 2
    /\ Len(out[0]) >= 3


\* C15 (an iteration is a step of the call in progress; the step of the
\* stream's writer is the one that changes file): an iteration on a buffer that holds the delimiter or has eof_reached
\* set returns without a read: the stream offset stays, no read fails and
\* eof_reached stays; while a buffer has eof_reached set no step moves the
\* offset of its stream or fails a read on it, even when the stream has
\* bytes to deliver; and a call on a drained buffer with eof_reached set
\* returns GNL_EOF.
C15_ReadsWhenNeeded ==
    /\ [][(frame # NULL /\ Decided /\ file' = file) =>
            LET fd == Deref(frame).fd
            IN /\ frame' = NULL
               /\ pos' = pos /\ nfail' = nfail
               /\ res'.why # "ReadError"
               /\ Deref(g_buffers'[fd]).eof_reached
                    = Deref(g_buffers[fd]).eof_reached]_vars
    /\ [][\A fd \in Fds :
            (g_buffers[fd] # NULL /\ Deref(g_buffers[fd]).eof_reached = 1) =>
              /\ pos'[fd] = pos[fd] /\ nfail'[fd] = nfail[fd]
              /\ (/\ frame # NULL /\ Deref(frame).fd = fd /\ file' = file
                  /\ Deref(g_buffers[fd]).len = 0) =>
                   /\ frame' = NULL
                   /\ res' = [ret |-> GNL_EOF, why |-> "NoError"]
                   /\ line' = NULL]_vars

\* A call is in its loop on a drained buffer that has eof_reached set and
\* has returned GNL_EOF before, while the stream has bytes to deliver.
C15_Witness ==
    /\ frame # NULL /\ Deref(frame).fd = 0 /\ NEofs(0) >= 1
    /\ Deref(g_buffers[0]).eof_reached = 1 /\ Deref(g_buffers[0]).len = 0
    /\ Len(file[0]) > pos[0]


\* C16: a descriptor gets its buffer in the first step of a call on it that
\* passes validation and allocates, and only there, with len = 0,
\* eof_reached = 0 and size GNL_BUFFER_SIZE; a call in its loop has one;
\* the buffer goes away in a step of gnl_close or gnl_cleanup_all only,
\* which returns nothing; and no step in which a call returns, whatever it
\* returns, removes a buffer.
C16_RegistryLifecycle ==
    /\ [](/\ frame # NULL => g_buffers[Deref(frame).fd] # NULL
          /\ \A fd \in Fds :
               (out[fd] # <<>> /\ ~released[fd]) => g_buffers[fd] # NULL)
    /\ [][\A fd \in Fds :
            /\ (g_buffers[fd] = NULL /\ g_buffers'[fd] # NULL) =>
                 /\ frame = NULL /\ frame' # NULL /\ Deref(frame').fd = fd
                 /\ LET buf == Deref(g_buffers'[fd])
                    IN /\ buf.len = 0 /\ buf.eof_reached = 0
                       /\ buf.size = GNL_BUFFER_SIZE
            /\ (g_buffers[fd] # NULL /\ g_buffers'[fd] = NULL) =>
                 /\ frame = NULL /\ frame' = NULL
                 /\ nclose' = nclose + 1 /\ released'[fd]
                 /\ UNCHANGED <<res, out, line, pos>>
            /\ (frame' = NULL /\ (frame # NULL \/ res' # res)) =>
                 (g_buffers[fd] # NULL => g_buffers'[fd] # NULL)]_vars

\* After its buffer was freed the descriptor has a buffer again, and calls
\* on it have returned.
C16_Witness ==
    /\ frame = NULL /\ released[0] /\ g_buffers[0] # NULL /\ out[0] # <<>>


\* C17: on every registry reached, gnl_cleanup_all leaves no descriptor with
\* a buffer, gives what gnl_close on every descriptor gives, in either
\* order, and run a second time changes nothing; a gnl_cleanup_all step
\* changes the registry only.
C17_ReleaseAll ==
    /\ [](LET all == ClosedFrom(g_buffers, 0)
          IN /\ \A h \in Fds : all[h] = NULL
             /\ all = Closed(Closed(g_buffers, 0), 1)
             /\ all = Closed(Closed(g_buffers, 1), 0)
             /\ ClosedFrom(all, 0) = all)
    /\ [][gnl_cleanup_all =>
            /\ \A h \in Fds : g_buffers'[h] = NULL
            /\ UNCHANGED <<file, pos, frame, line, res, out>>]_vars

\* The buffers of both descriptors were freed at once.
C17_Witness ==
    /\ nclose = 1 /\ released[0] /\ released[1]
    /\ \A h \in Fds : g_buffers[h] = NULL


\* The shortest non-empty prefix of rest that ends in d, or the whole of
\* rest if it holds no d.
ShortestPrefix(rest, d) ==
    LET n == Len(rest)
        ends == {k \in 1 .. n : rest[k] = d}
    IN SubSeq(rest, 1, IF ends = {} THEN n
                       ELSE CHOOSE k \in ends : \A j \in ends : k <= j)

\* The bytes of the stream of fd that the results before number i have not
\* returned.
NotYetReturned(fd, i) ==
    SubSeq(file[fd], Len(Concat(Before(fd, i))) + 1, Len(file[fd]))

\* C18: with no failure and no release, whatever delimiters the calls on a
\* descriptor pass, each call returns the shortest non-empty prefix, ending
\* in its own delimiter, of the bytes of the stream not returned before it,
\* or all of them if they hold no such delimiter, or GNL_EOF if none is
\* left.
C18_DelimiterChange ==
    \A fd \in Fds : Undisturbed(fd) =>
      \A i \in 1 .. Len(out[fd]) :
        LET r == out[fd][i]
            rest == NotYetReturned(fd, i)
        IN IF rest = <<>>
           THEN r.ret = GNL_EOF /\ r.seg = <<>>
           ELSE r.ret = GNL_LINE_READ /\ r.seg = ShortestPrefix(rest, r.delim)

\* Two calls with different delimiters returned segments, each ending in
\* the delimiter of its call, and bytes are still buffered.
C18_Witness ==
    /\ frame = NULL /\ Undisturbed(0) /\ Len(out[0]) = 2
    /\ out[0][1].delim # out[0][2].delim
    /\ out[0][1].ret = GNL_LINE_READ
    /\ Last(out[0][1].seg) = out[0][1].delim
    /\ out[0][2].ret = GNL_LINE_READ
    /\ Last(out[0][2].seg) = out[0][2].delim
    /\ Deref(g_buffers[0]).len > 0


\* The bytes buffered for fd: data[0, len) of its buffer, none without one.
Held(fd) ==
    IF g_buffers[fd] = NULL THEN <<>> ELSE Filled(Deref(g_buffers[fd]))

\* C19: gnl_close frees the buffer of a descriptor whatever it holds; the
\* step that frees a buffer leaves the stream offset where it is, so the
\* bytes the buffer held are read by no later call; the buffer created
\* after it starts with len = 0 and eof_reached = 0 at that offset; a
\* buffer always holds the last len bytes read; and after one release the
\* bytes returned and buffered are the bytes read with one gap, the bytes
\* discarded, and without a release with none.
C19_ReleaseDiscards ==
    /\ [](\A fd \in Fds :
            /\ Closed(g_buffers, fd)[fd] = NULL
            /\ Held(fd) = SubSeq(file[fd], pos[fd] - Len(Held(fd)) + 1, pos[fd])
            /\ nclose <= 1 =>
                 \E a \in 0 .. pos[fd] : \E b \in a .. pos[fd] :
                   /\ Concat(out[fd]) \o Held(fd)
                        = SubSeq(file[fd], 1, a) \o SubSeq(file[fd], b + 1, pos[fd])
                   /\ ~released[fd] => a = b)
    /\ [][\A fd \in Fds :
            /\ (g_buffers[fd] # NULL /\ g_buffers'[fd] = NULL) =>
                 pos'[fd] = pos[fd] /\ out'[fd] = out[fd]
            /\ (released[fd] /\ g_buffers[fd] = NULL /\ g_buffers'[fd] # NULL) =>
                 /\ Deref(g_buffers'[fd]).len = 0
                 /\ Deref(g_buffers'[fd]).eof_reached = 0
                 /\ pos'[fd] = pos[fd]]_vars

\* After a release the stream was read to its end with one delimiter and no
\* failure, and the segments returned are not the whole stream.
C19_Witness ==
    /\ frame = NULL /\ released[0] /\ nfail[0] = 0 /\ nnomem[0] = 0
    /\ FixedDelim(0) /\ NEofs(0) >= 1 /\ pos[0] = Len(file[0])
    /\ Len(Concat(out[0])) < Len(file[0])
    /\ Last(out[0]).ret = GNL_EOF


\* C20: on a stream without a 0 byte, with no failure in the calls of
\* either program, the i-th get_next_line(fd) of get_next_line_bonus.c
\* returns NULL exactly when the i-th get_next_line(fd, &line) of
\* get_next_line.c returns GNL_EOF, and otherwise the string of the same
\* bytes as its segment, for every pair of chunk sizes and every way read
\* splits the data.
C20_VariantsAgree ==
    \A fd \in opened : (nfail[fd] = 0 /\ nnomem[fd] = 0) =>
      \A i \in 1 .. Min(Len(out[fd]), Len(bout[fd])) :
        /\ bout[fd][i] = NULL <=> out[fd][i].ret = GNL_EOF
        /\ bout[fd][i] # NULL =>
             /\ out[fd][i].ret = GNL_LINE_READ
             /\ CStr(Deref(bout[fd][i])) = out[fd][i].seg

\* Both programs, built with different chunk sizes, have read the stream to
\* its end: three results or more each, the last one the end of the stream.
C20_Witness ==
    /\ frame = NULL /\ nfail[0] = 0 /\ nnomem[0] = 0
    /\ BONUS_BUFFER_SIZE # GNL_BUFFER_SIZE
    /\ Len(out[0]) >= 3 /\ Len(bout[0]) = Len(out[0])
    /\ Last(bout[0]) = NULL /\ Last(out[0]).ret = GNL_EOF
    /\ bout[0][2] # NULL

====
